---- MODULE Spec2Model ----
(***************************************************************************)
(* Model of lib/data_classes/Run.py: the Run aggregate of the BarSed wave  *)
(* flume library.  A Run holds the time axis, the wave maker, the list of  *)
(* wave gauges and the matrices derived from them.  Every public method of *)
(* Run that changes state is one action; an exception raised by a method   *)
(* is recorded in err together with whatever the method had already        *)
(* stored when it raised.                                                   *)
(*                                                                         *)
(* Python values are tagged records ([type |-> ...]) so that None, ints,   *)
(* lists, WaveGauge/WaveMaker objects and arrays can live in one variable. *)
(* A numpy array is [type |-> "ndarray", shape |-> <<rows, cols>>,          *)
(* data |-> sequence of rows].  1-D series are plain sequences.            *)
(* Python indices are 0-based; sequences here are 1-based, so Python's     *)
(* eta[id] is eta.data[id + 1].                                            *)
(***************************************************************************)
EXTENDS Integers, Sequences, FiniteSets, TLC

VARIABLES
    datetime,         \* self.datetime: None or list of timestamps (ticks since 0001-01-01)
    start_date,       \* self.start_date: None or a date
    num_times,        \* self.num_times: None or int
    wave_gauges,      \* self.wave_gauges: list (sequence) of objects
    num_wave_gauges,  \* self.num_wave_gauges: None or int
    wave_maker,       \* self.wave_maker: None or WaveMaker
    wave_gauge_wse,   \* self.wave_gauge_wse: attribute absent (Unset) or ndarray
    wg_locations,     \* self.wg_locations: attribute absent (Unset) or DataFrame
    flume_wse,        \* self.flume_wse: attribute absent (Unset) or ndarray
    flume_wse_locs,   \* self.flume_wse_locs: attribute absent (Unset) or ndarray
    op,               \* history: name of the last method called
    arg,              \* history: the argument of the last call (None if it takes none)
    err,              \* history: exception type raised by the last call, or "none"
    caller_added      \* history: add_wave_gauge was called directly and succeeded

run_vars == <<datetime, start_date, num_times, wave_gauges, num_wave_gauges,
              wave_maker, wave_gauge_wse, wg_locations, flume_wse, flume_wse_locs>>
vars == <<datetime, start_date, num_times, wave_gauges, num_wave_gauges,
          wave_maker, wave_gauge_wse, wg_locations, flume_wse, flume_wse_locs,
          op, arg, err, caller_added>>

(***************************************************************************)
(* Bounds of the model.                                                    *)
(***************************************************************************)
MaxT == 2          \* largest number of time codes in a container
MaxG == 2          \* largest number of gauges in a container
MaxGauges == 2     \* cap on len(self.wave_gauges)
MaxArgLen == 2     \* longest list handed to add_wave_gauge by the caller

(***************************************************************************)
(* Python values.                                                          *)
(***************************************************************************)
None == [type |-> "NoneType"]
Unset == [type |-> "unset"]
PyInt(n) == [type |-> "int", value |-> n]
PyList(s) == [type |-> "list", items |-> s]
PyDate(d) == [type |-> "date", day |-> d]
NdArray(rows, cols, data) == [type |-> "ndarray", shape |-> <<rows, cols>>, data |-> data]
DataFrame(xs, ys) == [type |-> "DataFrame", x_loc |-> xs, y_loc |-> ys]

Min(a, b) == IF a <= b THEN a ELSE b

\* Number of ticks in one day: timedelta(days = time) keeps the fractional
\* part of a day, .date() drops it.
TicksPerDay == 2

\* time_offset = -1.0 * (365 + 2) days, in ticks
time_offset == (0 - 1) * (365 + 2) * TicksPerDay

\* numpy assignment a[...] = v broadcasts v: a source extent fits a target
\* extent when they are equal or the source extent is 1.
Broadcastable(src, dst) == src = dst \/ src = 1

\* Element k (1-based) of a series broadcast to some target length.
BroadcastAt(series, k) == IF Len(series) = 1 THEN series[1] ELSE series[k]

\* WaveGauge(id, location, eta, datetime) and WaveMaker(eta_wm, x_wm, datetime):
\* the fields Run.py reads back (id, location, eta; position, eta_wm).
WaveGauge(id, location, eta, dt) ==
    [type |-> "WaveGauge", id |-> id, location |-> location, eta |-> eta, datetime |-> dt]
WaveMaker(eta_wm, x_wm, dt) ==
    [type |-> "WaveMaker", eta_wm |-> eta_wm, position |-> x_wm, datetime |-> dt]

(***************************************************************************)
(* Inputs.  A container is the dict scipy.io.loadmat returns, already      *)
(* unwrapped: date (T), eta (T x G), x, y (G), eta_wm, x_wm (T).  Every    *)
(* cell holds a value that names its position, so that a row, a column and *)
(* a broadcast value can be told apart.                                    *)
(***************************************************************************)
\* First time code of every container, in ticks: half a day after the day
\* the offset maps to 0001-01-01, so that the time of day and the date of a
\* timestamp differ.  Later codes follow one tick apart.
FirstTimeCode == (0 - time_offset) + 1

Container(T, G) ==
    [type   |-> "mat",
     date   |-> [t \in 1..T |-> FirstTimeCode + (t - 1)],
     eta    |-> NdArray(T, G, [t \in 1..T |-> [i \in 1..G |-> 10 * t + i]]),
     x      |-> [i \in 1..G |-> 100 + i],
     y      |-> [i \in 1..G |-> 200 + i],
     eta_wm |-> [t \in 1..T |-> 300 + t],
     x_wm   |-> [t \in 1..T |-> 400 + t]]

Containers == {Container(T, G) : T \in 0..MaxT, G \in 0..MaxG}

\* Objects a caller can hand to the add-operations: a WaveGauge and a
\* WaveMaker built by the caller, and an object that is neither.
CallerGauge == WaveGauge(9, <<109, 209>>, <<91>>, None)
CallerWaveMaker == WaveMaker(<<51>>, <<61>>, None)
OtherObject == PyInt(0)
SeqsUpTo(S, n) == UNION {[1..k -> S] : k \in 0..n}
CallerLists == {PyList(s) : s \in SeqsUpTo({CallerGauge, OtherObject}, MaxArgLen)}
GaugeArgs == {CallerGauge, OtherObject} \cup CallerLists
WaveMakerArgs == {CallerWaveMaker, OtherObject}

(***************************************************************************)
(* Run.__init__                                                            *)
(***************************************************************************)
Init ==
    /\ datetime = None
    /\ start_date = None
    /\ num_times = None
    /\ wave_gauges = <<>>
    /\ num_wave_gauges = None
    /\ wave_maker = None
    /\ wave_gauge_wse = Unset
    /\ wg_locations = Unset
    /\ flume_wse = Unset
    /\ flume_wse_locs = Unset
    /\ op = "__init__"
    /\ arg = None
    /\ err = "none"
    /\ caller_added = FALSE

(***************************************************************************)
(* add_wave_gauge: what the call leaves in wave_gauges / num_wave_gauges,  *)
(* given the list it finds there.                                          *)
(***************************************************************************)
\* add_wave_gauge with the operands of the list concatenation swapped
\* (wave_gauge + self.wave_gauges).
add_wave_gauge_prepend(gauges, num, wave_gauge) ==
    IF wave_gauge.type = "list"
    THEN [err |-> "none",
          wave_gauges |-> wave_gauge.items \o gauges,
          num_wave_gauges |-> PyInt(Len(wave_gauge.items \o gauges))]
    ELSE IF wave_gauge.type = "WaveGauge"
    THEN [err |-> "none",
          wave_gauges |-> Append(gauges, wave_gauge),
          num_wave_gauges |-> PyInt(Len(gauges) + 1)]
    ELSE [err |-> "TypeError", wave_gauges |-> gauges, num_wave_gauges |-> num]

add_wave_gauge_result(gauges, num, wave_gauge) ==
    IF wave_gauge.type = "list"
    THEN [err |-> "none",
          wave_gauges |-> gauges \o wave_gauge.items,
          num_wave_gauges |-> PyInt(Len(gauges \o wave_gauge.items))]
    ELSE IF wave_gauge.type = "WaveGauge"
    THEN [err |-> "none",
          wave_gauges |-> Append(gauges, wave_gauge),
          num_wave_gauges |-> PyInt(Len(gauges) + 1)]
    ELSE [err |-> "TypeError", wave_gauges |-> gauges, num_wave_gauges |-> num]

add_wave_gauge(wave_gauge) ==
    LET r == add_wave_gauge_result(wave_gauges, num_wave_gauges, wave_gauge) IN
    /\ Len(r.wave_gauges) <= MaxGauges
    /\ wave_gauges' = r.wave_gauges
    /\ num_wave_gauges' = r.num_wave_gauges
    /\ op' = "add_wave_gauge"
    /\ arg' = wave_gauge
    /\ err' = r.err
    /\ caller_added' = (caller_added \/ r.err = "none")
    /\ UNCHANGED <<datetime, start_date, num_times, wave_maker,
                   wave_gauge_wse, wg_locations, flume_wse, flume_wse_locs>>

(***************************************************************************)
(* add_wave_maker                                                          *)
(***************************************************************************)
\* add_wave_maker that stores its argument before it checks the type.
add_wave_maker_store_first(current, obj) ==
    IF obj.type = "WaveMaker"
    THEN [err |-> "none", wave_maker |-> obj]
    ELSE [err |-> "TypeError", wave_maker |-> obj]

add_wave_maker_result(current, obj) ==
    IF obj.type = "WaveMaker"
    THEN [err |-> "none", wave_maker |-> obj]
    ELSE [err |-> "TypeError", wave_maker |-> current]

add_wave_maker(obj) ==
    LET r == add_wave_maker_result(wave_maker, obj) IN
    /\ wave_maker' = r.wave_maker
    /\ op' = "add_wave_maker"
    /\ arg' = obj
    /\ err' = r.err
    /\ UNCHANGED <<datetime, start_date, num_times, wave_gauges, num_wave_gauges,
                   wave_gauge_wse, wg_locations, flume_wse, flume_wse_locs, caller_added>>

(***************************************************************************)
(* load_wave_data and its three steps.                                     *)
(***************************************************************************)
\* What _convert_mat_time_and_store leaves in datetime, start_date and
\* num_times, given what it finds there.  datetime(1, 1, 1) + timedelta
\* raises OverflowError below year 1, inside the loop, before any store;
\* self.datetime[0] raises IndexError after self.datetime was stored.
_convert_mat_time_and_store(offset, mat_time, old) ==
    LET shifted == [k \in 1..Len(mat_time) |-> mat_time[k] + offset] IN
    IF \E k \in 1..Len(mat_time) : shifted[k] < 0
    THEN [err |-> "OverflowError", datetime |-> old.datetime,
          start_date |-> old.start_date, num_times |-> old.num_times]
    ELSE IF Len(mat_time) = 0
    THEN [err |-> "IndexError", datetime |-> PyList(shifted),
          start_date |-> old.start_date, num_times |-> old.num_times]
    ELSE [err |-> "none", datetime |-> PyList(shifted),
          start_date |-> PyDate(shifted[1] \div TicksPerDay),
          num_times |-> PyInt(Len(shifted))]

_construct_wave_maker(eta_wm, x_wm, dt) == WaveMaker(eta_wm, x_wm, dt)

\* The list _construct_wave_gauges builds: one gauge per (x, y) pair, with
\* eta[id] as its series.  eta[id] raises IndexError when id is not a row.
_construct_wave_gauges(x_loc, y_loc, eta, dt) ==
    LET n == Min(Len(x_loc), Len(y_loc)) IN
    IF n > eta.shape[1]
    THEN [err |-> "IndexError", list |-> <<>>]
    ELSE [err |-> "none",
          list |-> [i \in 1..n |-> WaveGauge((i - 1) + 1, <<x_loc[i], y_loc[i]>>,
                                             eta.data[i], dt)]]

load_wave_data(mat) ==
    LET t == _convert_mat_time_and_store(time_offset, mat.date,
                 [datetime |-> datetime, start_date |-> start_date, num_times |-> num_times])
        g == _construct_wave_gauges(mat.x, mat.y, mat.eta, t.datetime)
        a == add_wave_gauge_result(wave_gauges, num_wave_gauges, PyList(g.list))
    IN
    /\ op' = "load_wave_data"
    /\ arg' = mat
    /\ datetime' = t.datetime
    /\ start_date' = t.start_date
    /\ num_times' = t.num_times
    /\ IF t.err # "none"
       THEN /\ err' = t.err
            /\ UNCHANGED <<wave_maker, wave_gauges, num_wave_gauges>>
       ELSE /\ wave_maker' = _construct_wave_maker(mat.eta_wm, mat.x_wm, t.datetime)
            /\ IF g.err # "none"
               THEN /\ err' = g.err
                    /\ UNCHANGED <<wave_gauges, num_wave_gauges>>
               ELSE /\ Len(a.wave_gauges) <= MaxGauges
                    /\ err' = a.err
                    /\ wave_gauges' = a.wave_gauges
                    /\ num_wave_gauges' = a.num_wave_gauges
    /\ UNCHANGED <<wave_gauge_wse, wg_locations, flume_wse, flume_wse_locs, caller_added>>

(***************************************************************************)
(* construct_wave_gauge_wse                                                *)
(***************************************************************************)
\* The first exception the loop body surface_elevations[:, i] = wave_gauge.eta
\* raises for the gauge at (1-based) position i, or "none".
wse_column_error(gauge, i, T, G) ==
    IF gauge.type # "WaveGauge" THEN "AttributeError"
    ELSE IF i > G THEN "IndexError"
    ELSE IF ~Broadcastable(Len(gauge.eta), T) THEN "ValueError"
    ELSE "none"

construct_wave_gauge_wse_result(num_t, num_g, gauges) ==
    IF num_t.type # "int" \/ num_g.type # "int"
    THEN [err |-> "TypeError", array |-> Unset]
    ELSE LET T == num_t.value
             G == num_g.value
             failing == {i \in 1..Len(gauges) : wse_column_error(gauges[i], i, T, G) # "none"}
         IN
         IF failing # {}
         THEN LET first == CHOOSE i \in failing : \A j \in failing : i <= j IN
              [err |-> wse_column_error(gauges[first], first, T, G), array |-> Unset]
         ELSE [err |-> "none",
               array |-> NdArray(T, G,
                   [t \in 1..T |-> [i \in 1..G |->
                       IF i <= Len(gauges) THEN BroadcastAt(gauges[i].eta, t) ELSE 0]])]

construct_wave_gauge_wse ==
    LET r == construct_wave_gauge_wse_result(num_times, num_wave_gauges, wave_gauges) IN
    /\ op' = "construct_wave_gauge_wse"
    /\ arg' = None
    /\ err' = r.err
    /\ wave_gauge_wse' = IF r.err = "none" THEN r.array ELSE wave_gauge_wse
    /\ UNCHANGED <<datetime, start_date, num_times, wave_gauges, num_wave_gauges,
                   wave_maker, wg_locations, flume_wse, flume_wse_locs, caller_added>>

(***************************************************************************)
(* get_wave_gauge_locations                                                *)
(***************************************************************************)
location_row_error(gauge, i, G) ==
    IF gauge.type # "WaveGauge" THEN "AttributeError"
    ELSE IF i > G THEN "IndexError"
    ELSE "none"

get_wave_gauge_locations_result(num_g, gauges) ==
    IF num_g.type # "int"
    THEN [err |-> "TypeError", table |-> Unset]
    ELSE LET G == num_g.value
             failing == {i \in 1..Len(gauges) : location_row_error(gauges[i], i, G) # "none"}
         IN
         IF failing # {}
         THEN LET first == CHOOSE i \in failing : \A j \in failing : i <= j IN
              [err |-> location_row_error(gauges[first], first, G), table |-> Unset]
         ELSE [err |-> "none",
               table |-> DataFrame(
                   [i \in 1..G |-> IF i <= Len(gauges) THEN gauges[i].location[1] ELSE 0],
                   [i \in 1..G |-> IF i <= Len(gauges) THEN gauges[i].location[2] ELSE 0])]

get_wave_gauge_locations ==
    LET r == get_wave_gauge_locations_result(num_wave_gauges, wave_gauges) IN
    /\ op' = "get_wave_gauge_locations"
    /\ arg' = None
    /\ err' = r.err
    /\ wg_locations' = IF r.err = "none" THEN r.table ELSE wg_locations
    /\ UNCHANGED <<datetime, start_date, num_times, wave_gauges, num_wave_gauges,
                   wave_maker, wave_gauge_wse, flume_wse, flume_wse_locs, caller_added>>

(***************************************************************************)
(* construct_flume_wse                                                     *)
(***************************************************************************)
\* The two arrays construct_flume_wse fills: column 0 from the wave maker,
\* columns 1..G from wg_locations["x_loc"] and wave_gauge_wse, each source
\* broadcast to the slice it is assigned to.
flume_arrays(T, G, wm, x_loc, wse_data) ==
    [flume_wse |-> NdArray(T, G + 1,
         [t \in 1..T |-> <<BroadcastAt(wm.eta_wm, t)>> \o
             [i \in 1..G |-> BroadcastAt(BroadcastAt(wse_data, t), i)]]),
     flume_wse_locs |-> NdArray(T, G + 1,
         [t \in 1..T |-> <<BroadcastAt(wm.position, t)>> \o
             [i \in 1..G |-> BroadcastAt(x_loc, i)]])]

\* construct_flume_wse reading its two inputs with a default
\* (getattr(self, ..., 0)) instead of failing when they were never built.
construct_flume_wse_defaulting(num_t, num_g, wm, locs, wse) ==
    IF num_t.type # "int" \/ num_g.type # "int"
    THEN [err |-> "TypeError", flume_wse |-> Unset, flume_wse_locs |-> Unset]
    ELSE LET T == num_t.value
             G == num_g.value
             x_loc == IF locs.type = "DataFrame" THEN locs.x_loc ELSE <<0>>
             shape == IF wse.type = "ndarray" THEN wse.shape ELSE <<1, 1>>
             data == IF wse.type = "ndarray" THEN wse.data ELSE <<<<0>>>>
         IN
         IF wm.type # "WaveMaker"
         THEN [err |-> "AttributeError", flume_wse |-> Unset, flume_wse_locs |-> Unset]
         ELSE IF ~Broadcastable(Len(wm.position), T)
         THEN [err |-> "ValueError", flume_wse |-> Unset, flume_wse_locs |-> Unset]
         ELSE IF ~Broadcastable(Len(x_loc), G)
         THEN [err |-> "ValueError", flume_wse |-> Unset, flume_wse_locs |-> Unset]
         ELSE IF ~Broadcastable(Len(wm.eta_wm), T)
         THEN [err |-> "ValueError", flume_wse |-> Unset, flume_wse_locs |-> Unset]
         ELSE IF ~(Broadcastable(shape[1], T) /\ Broadcastable(shape[2], G))
         THEN [err |-> "ValueError", flume_wse |-> Unset, flume_wse_locs |-> Unset]
         ELSE [err |-> "none",
               flume_wse |-> flume_arrays(T, G, wm, x_loc, data).flume_wse,
               flume_wse_locs |-> flume_arrays(T, G, wm, x_loc, data).flume_wse_locs]

\* The statements of construct_flume_wse in order; the first that raises
\* decides the exception, and the two stores come last.
construct_flume_wse_result(num_t, num_g, wm, locs, wse) ==
    IF num_t.type # "int" \/ num_g.type # "int"
    THEN [err |-> "TypeError", flume_wse |-> Unset, flume_wse_locs |-> Unset]
    ELSE LET T == num_t.value
             G == num_g.value
         IN
         IF wm.type # "WaveMaker"
         THEN [err |-> "AttributeError", flume_wse |-> Unset, flume_wse_locs |-> Unset]
         ELSE IF ~Broadcastable(Len(wm.position), T)
         THEN [err |-> "ValueError", flume_wse |-> Unset, flume_wse_locs |-> Unset]
         ELSE IF locs.type # "DataFrame"
         THEN [err |-> "AttributeError", flume_wse |-> Unset, flume_wse_locs |-> Unset]
         ELSE IF ~Broadcastable(Len(locs.x_loc), G)
         THEN [err |-> "ValueError", flume_wse |-> Unset, flume_wse_locs |-> Unset]
         ELSE IF ~Broadcastable(Len(wm.eta_wm), T)
         THEN [err |-> "ValueError", flume_wse |-> Unset, flume_wse_locs |-> Unset]
         ELSE IF wse.type # "ndarray"
         THEN [err |-> "AttributeError", flume_wse |-> Unset, flume_wse_locs |-> Unset]
         ELSE IF ~(Broadcastable(wse.shape[1], T) /\ Broadcastable(wse.shape[2], G))
         THEN [err |-> "ValueError", flume_wse |-> Unset, flume_wse_locs |-> Unset]
         ELSE [err |-> "none",
               flume_wse |-> flume_arrays(T, G, wm, locs.x_loc, wse.data).flume_wse,
               flume_wse_locs |-> flume_arrays(T, G, wm, locs.x_loc, wse.data).flume_wse_locs]

construct_flume_wse ==
    LET r == construct_flume_wse_result(num_times, num_wave_gauges, wave_maker,
                                        wg_locations, wave_gauge_wse) IN
    /\ op' = "construct_flume_wse"
    /\ arg' = None
    /\ err' = r.err
    /\ flume_wse' = IF r.err = "none" THEN r.flume_wse ELSE flume_wse
    /\ flume_wse_locs' = IF r.err = "none" THEN r.flume_wse_locs ELSE flume_wse_locs
    /\ UNCHANGED <<datetime, start_date, num_times, wave_gauges, num_wave_gauges,
                   wave_maker, wave_gauge_wse, wg_locations, caller_added>>

(***************************************************************************)
(* The caller may invoke any method at any time.                           *)
(***************************************************************************)
Next ==
    \/ \E mat \in Containers : load_wave_data(mat)
    \/ \E obj \in WaveMakerArgs : add_wave_maker(obj)
    \/ \E obj \in GaugeArgs : add_wave_gauge(obj)
    \/ construct_wave_gauge_wse
    \/ get_wave_gauge_locations
    \/ construct_flume_wse

Spec == Init /\ [][Next]_vars

TypeOK ==
    /\ datetime.type \in {"NoneType", "list"}
    /\ num_times.type \in {"NoneType", "int"}
    /\ num_wave_gauges.type \in {"NoneType", "int"}
    /\ wave_maker.type \in {"NoneType", "WaveMaker"}
    /\ Len(wave_gauges) <= MaxGauges

(***************************************************************************)
(* Properties.  A step of a method is recognised by op' (every action sets *)
(* op to its own name); arg' is the argument of that call and err' its     *)
(* outcome.  Unprimed variables are the Run before the call.               *)
(***************************************************************************)
IsWaveGauge(obj) == obj.type = "WaveGauge"
IsGaugeList(obj) ==
    /\ obj.type = "list"
    /\ \A i \in 1..Len(obj.items) : IsWaveGauge(obj.items[i])
\* Column i (1-based) of a 2-D array: the values data[t][i] for every row t.
Column(array, i) == [t \in 1..array.shape[1] |-> array.data[t][i]]

\* C1: add_wave_gauge with a list of k WaveGauge objects leaves the stored
\* gauges in place, puts the k new ones after them in input order and sets
\* num_wave_gauges to the old length plus k; with a single WaveGauge it
\* puts the gauge last and the count grows by one.
C1_AddGaugeAppends ==
    [][op' = "add_wave_gauge" =>
         /\ IsGaugeList(arg') =>
              /\ err' = "none"
              /\ wave_gauges' = wave_gauges \o arg'.items
              /\ num_wave_gauges' = PyInt(Len(wave_gauges) + Len(arg'.items))
              /\ num_wave_gauges' = PyInt(Len(wave_gauges'))
         /\ IsWaveGauge(arg') =>
              /\ err' = "none"
              /\ Len(wave_gauges') = Len(wave_gauges) + 1
              /\ SubSeq(wave_gauges', 1, Len(wave_gauges)) = wave_gauges
              /\ wave_gauges'[Len(wave_gauges')] = arg'
              /\ num_wave_gauges' = PyInt(Len(wave_gauges) + 1)]_vars

\* A list of gauges was added to a Run that already held at least one.
C1_Witness ==
    /\ op = "add_wave_gauge"
    /\ err = "none"
    /\ IsGaugeList(arg)
    /\ Len(arg.items) >= 1
    /\ Len(wave_gauges) > Len(arg.items)
    /\ num_wave_gauges = PyInt(Len(wave_gauges))

\* C2: add_wave_maker with a non-WaveMaker raises TypeError and leaves the
\* wave maker and every other field of the Run as they were; with a
\* WaveMaker it makes the argument the Run's wave maker.
C2_AddWaveMaker ==
    [][op' = "add_wave_maker" =>
         IF arg'.type = "WaveMaker"
         THEN err' = "none" /\ wave_maker' = arg'
         ELSE err' = "TypeError" /\ UNCHANGED run_vars]_vars

\* A rejected add_wave_maker on a Run that holds an earlier WaveMaker.
C2_Witness ==
    /\ op = "add_wave_maker"
    /\ err = "TypeError"
    /\ arg.type # "WaveMaker"
    /\ wave_maker.type = "WaveMaker"

\* C3: add_wave_gauge raises TypeError, changing neither wave_gauges nor
\* num_wave_gauges, whenever its argument is neither a WaveGauge nor a list
\* of WaveGauge objects; so every element of wave_gauges is a WaveGauge.
C3_RejectsNonGauges ==
    [][/\ (op' = "add_wave_gauge" /\ ~IsWaveGauge(arg') /\ ~IsGaugeList(arg')) =>
            (err' = "TypeError" /\ UNCHANGED <<wave_gauges, num_wave_gauges>>)
       /\ \A i \in 1..Len(wave_gauges') : IsWaveGauge(wave_gauges'[i])]_vars

\* C4: construct_wave_gauge_wse right after a successful load_wave_data of
\* a container with T time codes and G gauges: datetime and num_times have
\* length/value T, the wave maker's two series and every gauge's series
\* have length T, and wave_gauge_wse is T x G.
C4_SharedLengthT ==
    [][(op = "load_wave_data" /\ err = "none" /\ op' = "construct_wave_gauge_wse") =>
         LET T == Len(arg.date)
             G == Len(arg.x)
         IN
         /\ err' = "none"
         /\ datetime'.type = "list"
         /\ Len(datetime'.items) = T
         /\ num_times' = PyInt(T)
         /\ Len(wave_maker'.eta_wm) = T
         /\ Len(wave_maker'.position) = T
         /\ \A i \in 1..Len(wave_gauges') : Len(wave_gauges'[i].eta) = T
         /\ wave_gauge_wse'.type = "ndarray"
         /\ wave_gauge_wse'.shape = <<T, G>>]_vars

\* C5: a successful construct_flume_wse on a Run with T times and G gauges
\* stores two T x (G+1) arrays; column 0 is the wave maker's eta_wm /
\* position, column i+1 is gauge i's eta / its x location in every row.
C5_FlumeColumns ==
    [][(op' = "construct_flume_wse" /\ err' = "none") =>
         LET T == num_times.value
             G == Len(wave_gauges)
         IN
         /\ flume_wse'.shape = <<T, G + 1>>
         /\ flume_wse_locs'.shape = <<T, G + 1>>
         /\ \A t \in 1..T :
              /\ Len(wave_maker.eta_wm) >= t
              /\ Len(wave_maker.position) >= t
              /\ flume_wse'.data[t][1] = wave_maker.eta_wm[t]
              /\ flume_wse_locs'.data[t][1] = wave_maker.position[t]
              /\ \A i \in 1..G :
                   /\ IsWaveGauge(wave_gauges[i])
                   /\ Len(wave_gauges[i].eta) >= t
                   /\ flume_wse'.data[t][i + 1] = wave_gauges[i].eta[t]
                   /\ flume_wse_locs'.data[t][i + 1] = wave_gauges[i].location[1]]_vars

\* C6: construct_flume_wse succeeds only on a Run on which
\* construct_wave_gauge_wse and get_wave_gauge_locations have both already
\* stored their result; called without either it raises and stores neither
\* flume_wse nor flume_wse_locs, so the flume arrays never exist without
\* the two arrays they are built from.
C6_FlumeNeedsBothBuilds ==
    [][/\ op' = "construct_flume_wse" =>
            /\ err' = "none" =>
                 (wave_gauge_wse.type = "ndarray" /\ wg_locations.type = "DataFrame")
            /\ (wave_gauge_wse = Unset \/ wg_locations = Unset) =>
                 (err' # "none" /\ UNCHANGED <<flume_wse, flume_wse_locs>>)
       /\ (flume_wse' # Unset \/ flume_wse_locs' # Unset) =>
            /\ flume_wse' # Unset
            /\ flume_wse_locs' # Unset
            /\ wave_gauge_wse' # Unset
            /\ wg_locations' # Unset]_vars

\* The Run has reached Derived: construct_flume_wse has just succeeded.
C6_Witness ==
    /\ op = "construct_flume_wse"
    /\ err = "none"
    /\ flume_wse.type = "ndarray"
    /\ flume_wse_locs.type = "ndarray"

\* C7: a successful load_wave_data of a container with eta of shape T x G
\* appends exactly G gauges; gauge i has id i, location (x[i], y[i]), the
\* Run's datetime list and column i of eta as its series.
C7_GaugeTakesColumn ==
    [][(op' = "load_wave_data" /\ err' = "none") =>
         LET G == Len(arg'.x)
             n == Len(wave_gauges)
         IN
         /\ Len(wave_gauges') = n + G
         /\ SubSeq(wave_gauges', 1, n) = wave_gauges
         /\ \A i \in 1..G :
              /\ wave_gauges'[n + i].id = i
              /\ wave_gauges'[n + i].location = <<arg'.x[i], arg'.y[i]>>
              /\ wave_gauges'[n + i].datetime = datetime'
              /\ wave_gauges'[n + i].eta = Column(arg'.eta, i)]_vars

\* C8: load_wave_data of a container with no time codes raises an error
\* that is not IndexError and stores neither datetime nor start_date.
C8_EmptyTimeCodes ==
    [][(op' = "load_wave_data" /\ Len(arg'.date) = 0) =>
         /\ err' \notin {"none", "IndexError"}
         /\ UNCHANGED <<datetime, start_date>>]_vars

\* C9: a load_wave_data that raises leaves datetime, start_date, num_times,
\* wave_maker, wave_gauges and num_wave_gauges as they were.
C9_LoadAllOrNothing ==
    [][(op' = "load_wave_data" /\ err' # "none") =>
         UNCHANGED <<datetime, start_date, num_times,
                     wave_maker, wave_gauges, num_wave_gauges>>]_vars

\* C10: as long as the caller never added a gauge directly, a successful
\* load_wave_data of a container with G gauges - the first one, or a
\* repetition of the load just done - leaves exactly G gauges, counted by
\* num_wave_gauges, with ids 1..G in list order.
C10_LoadedGaugeIds ==
    [][(/\ op' = "load_wave_data"
        /\ err' = "none"
        /\ ~caller_added'
        /\ \/ wave_gauges = <<>>
           \/ (op = "load_wave_data" /\ err = "none" /\ arg = arg')) =>
         LET G == Len(arg'.x) IN
         /\ Len(wave_gauges') = G
         /\ num_wave_gauges' = PyInt(G)
         /\ \A i \in 1..G : wave_gauges'[i].id = i]_vars

====
